---- MODULE Spec2Model ----
(***************************************************************************)
(* A model of data_agent_demo.py: the Streamlit chat client of a Cortex    *)
(* agent.  One script run is one turn: process_new_message fetches the     *)
(* Qlik filters, augments the prompt, appends the user Message, calls      *)
(* agent_run and hands the response to stream_events, which applies the    *)
(* server-sent events one at a time.                                       *)
(***************************************************************************)
EXTENDS Integers, Sequences, FiniteSets, TLC

VARIABLES
    messages,      \* st.session_state.messages: the transcript
    qlik_filters,  \* st.session_state.qlik_filters: the filter snapshot
    pc,            \* where the script is: idle, agent_run, streaming, raised
    buffers,       \* stream_events' local defaultdict(str)
    content_map,   \* stream_events' local defaultdict(content.empty): what each slot shows
    spinner,       \* label of the spinner that is entered, "" when none is
    st_error,      \* what st.error displayed in this script run
    exc,           \* the exception in flight, "" when none
    status_code,   \* resp.status_code of this turn's agent call, 0 before it returns
    pending,       \* number of events the server still sends on this stream
    turns,         \* number of script runs with a user input so far
    pre_turn,      \* history: the transcript when the turn began
    fed,           \* history: per slot, the delta texts applied in this stream, in order
    last,          \* history: the raw event read last in this stream
    nread,         \* history: number of events stream_events read in this turn
    total,         \* history: number of events read in the session
    input,         \* history: the chat input and the fetch result of this turn
    seen           \* history: the terminal events applied in this turn

vars == <<messages, qlik_filters, pc, buffers, content_map, spinner, st_error, exc,
          status_code, pending, turns, pre_turn, fed, last, nread, total, input, seen>>

(***************************************************************************)
(* Bounds of the model.                                                    *)
(***************************************************************************)
MaxTurns == 2
MaxEvents == 3

Idx == {0, 1}
Texts == {"a", "b"}
ThinkingIdx == {0}
ThinkingTexts == {"b"}
AtomicIdx == {1}
Statuses == {"Planning", "Executing"}
StatusCodes == {200, 399, 400, 500}
Prompts == {"show revenue"}

Empty == [i \in {} |-> ""]
NoEvent == [event |-> "", data |-> [none |-> ""]]
NoInput == [user_input |-> "", fetch |-> [t |-> "none"]]
DecodeError == [decode_error |-> "DecodeError"]

Last(s) == s[Len(s)]
Front(s) == SubSeq(s, 1, Len(s) - 1)

RECURSIVE Concat(_)
Concat(ts) == IF ts = <<>> THEN "" ELSE Head(ts) \o Concat(Tail(ts))

RECURSIVE Join(_, _)
Join(ts, sep) ==
    IF ts = <<>> THEN ""
    ELSE IF Len(ts) = 1 THEN ts[1]
    ELSE ts[1] \o sep \o Join(Tail(ts), sep)

\* defaultdict: d[k] with the factory's value when k is absent
Get(d, k, default) == IF k \in DOMAIN d THEN d[k] ELSE default
Put(d, k, v) == [j \in DOMAIN d \cup {k} |-> IF j = k THEN v ELSE d[j]]

(***************************************************************************)
(* The events of the stream.  A raw event is sseclient's (event, data); the *)
(* data is the JSON object, modelled as a record.                          *)
(***************************************************************************)
Junk == [junk |-> "x"]
ValidChartSpec == "{\"mark\":\"bar\"}"
ChartSpecs == {ValidChartSpec, "{"}
ResultSet == [data |-> <<<<"1", "a">>>>, row_type |-> <<"id", "label">>]
Responses ==
    { [role |-> "assistant",
       content |-> <<[type |-> "text", text |-> "ab"], [type |-> "table", text |-> "T"]>>] }

EventKinds ==
    {"response.status", "response.text.delta", "response.thinking.delta",
     "response.thinking", "response.tool_use", "response.tool_result",
     "response.chart", "response.table", "error", "response"}

RawEvents ==
    {[event |-> "response.status", data |-> [message |-> m]] : m \in Statuses}
    \cup {[event |-> "response.text.delta", data |-> [content_index |-> i, text |-> t]] :
            i \in Idx, t \in Texts}
    \cup {[event |-> k, data |-> [content_index |-> i, text |-> t]] :
            k \in {"response.thinking.delta", "response.thinking"},
            i \in ThinkingIdx, t \in ThinkingTexts}
    \cup {[event |-> k, data |-> [content_index |-> i, payload |-> "tool"]] :
            k \in {"response.tool_use", "response.tool_result"}, i \in AtomicIdx}
    \cup {[event |-> "response.chart", data |-> [content_index |-> i, chart_spec |-> c]] :
            i \in AtomicIdx, c \in ChartSpecs}
    \cup {[event |-> "response.table", data |-> [content_index |-> i, result_set |-> ResultSet]] :
            i \in AtomicIdx}
    \cup {[event |-> "error", data |-> [message |-> "timeout", code |-> 504]]}
    \cup {[event |-> "response", data |-> r] : r \in Responses}
    \cup {[event |-> k, data |-> Junk] : k \in EventKinds}
    \cup {[event |-> "ping", data |-> Junk]}

\* The fields each event class of models.py requires.
Schema(cls) ==
    CASE cls = "StatusEventData" -> {"message"}
      [] cls = "TextDeltaEventData" -> {"content_index", "text"}
      [] cls = "ThinkingDeltaEventData" -> {"content_index", "text"}
      [] cls = "ToolUseEventData" -> {"content_index", "payload"}
      [] cls = "ToolResultEventData" -> {"content_index", "payload"}
      [] cls = "ChartEventData" -> {"content_index", "chart_spec"}
      [] cls = "TableEventData" -> {"content_index", "result_set"}
      [] cls = "ErrorEventData" -> {"message", "code"}
      [] cls = "Message" -> {"role", "content"}

\* cls.from_json(data): the typed record, or DecodeError when the payload does not
\* match the class's schema.
from_json(cls, data) ==
    IF Schema(cls) \subseteq DOMAIN data
    THEN [f \in Schema(cls) |-> data[f]]
    ELSE DecodeError

\* json.loads(chart_spec): the parsed chart specification, or DecodeError.
json_loads(s) == IF s = ValidChartSpec THEN [mark |-> "bar"] ELSE DecodeError

IsError(d) == DOMAIN d = DOMAIN DecodeError

\* What a slot shows after one of the placeholder's calls.
Element(el, label, expanded, body) ==
    [el |-> el, label |-> label, expanded |-> expanded, body |-> body]

(***************************************************************************)
(* stream_events: one action per case of the match, applied to the event   *)
(* the loop has just read.  A case that raises leaves the script at the    *)
(* raise (pc = "raised"); Propagate unwinds it.                            *)
(***************************************************************************)
\* Mutant of Accumulate: the fragment is put in front of the buffered text.
Accumulate_Prepend(bufs, i, text) == text \o Get(bufs, i, "")

\* buffers[content_index] += text, on a defaultdict(str): the slot's new text
Accumulate(bufs, i, text) == Get(bufs, i, "") \o text

Raise(e) ==
    /\ pc' = "raised"
    /\ exc' = e
    /\ UNCHANGED <<messages, buffers, content_map, st_error, fed, seen>>

\* Mutant of OnStatus: the new label is added to the one shown.
OnStatus_Accumulate(ev) ==
    /\ ev.event = "response.status"
    /\ LET data == from_json("StatusEventData", ev.data) IN
         IF IsError(data)
         THEN /\ spinner' = ""
              /\ Raise("DecodeError")
         ELSE /\ spinner' = spinner \o " " \o data.message
              /\ UNCHANGED <<messages, buffers, content_map, st_error, exc, pc, fed, seen>>

OnStatus(ev) ==
    /\ ev.event = "response.status"
    /\ LET data == from_json("StatusEventData", ev.data) IN
         IF IsError(data)
         THEN /\ spinner' = ""
              /\ Raise("DecodeError")
         ELSE /\ spinner' = data.message
              /\ UNCHANGED <<messages, buffers, content_map, st_error, exc, pc, fed, seen>>

\* Mutant of OnTextDelta: only the fragment is written to the slot.
OnTextDelta_WriteDelta(ev) ==
    /\ ev.event = "response.text.delta"
    /\ UNCHANGED spinner
    /\ LET data == from_json("TextDeltaEventData", ev.data) IN
         IF IsError(data)
         THEN Raise("DecodeError")
         ELSE LET i == data.content_index
                  buf == Accumulate(buffers, i, data.text)
              IN /\ buffers' = Put(buffers, i, buf)
                 /\ content_map' = Put(content_map, i, Element("write", "", FALSE, data.text))
                 /\ fed' = Put(fed, i, Append(Get(fed, i, <<>>), data.text))
                 /\ UNCHANGED <<messages, st_error, exc, pc, seen>>

OnTextDelta(ev) ==
    /\ ev.event = "response.text.delta"
    /\ UNCHANGED spinner
    /\ LET data == from_json("TextDeltaEventData", ev.data) IN
         IF IsError(data)
         THEN Raise("DecodeError")
         ELSE LET i == data.content_index
                  buf == Accumulate(buffers, i, data.text)
              IN /\ buffers' = Put(buffers, i, buf)
                 /\ content_map' = Put(content_map, i, Element("write", "", FALSE, buf))
                 /\ fed' = Put(fed, i, Append(Get(fed, i, <<>>), data.text))
                 /\ UNCHANGED <<messages, st_error, exc, pc, seen>>

OnThinkingDelta(ev) ==
    /\ ev.event = "response.thinking.delta"
    /\ UNCHANGED spinner
    /\ LET data == from_json("ThinkingDeltaEventData", ev.data) IN
         IF IsError(data)
         THEN Raise("DecodeError")
         ELSE LET i == data.content_index
                  buf == Accumulate(buffers, i, data.text)
              IN /\ buffers' = Put(buffers, i, buf)
                 /\ content_map' = Put(content_map, i, Element("expander", "Thinking", TRUE, buf))
                 /\ fed' = Put(fed, i, Append(Get(fed, i, <<>>), data.text))
                 /\ UNCHANGED <<messages, st_error, exc, pc, seen>>

OnThinking(ev) ==
    /\ ev.event = "response.thinking"
    /\ UNCHANGED spinner
    /\ LET data == from_json("ThinkingDeltaEventData", ev.data) IN
         IF IsError(data)
         THEN Raise("DecodeError")
         ELSE /\ content_map' = Put(content_map, data.content_index,
                                    Element("expander", "Thinking", FALSE, data.text))
              /\ UNCHANGED <<messages, buffers, st_error, exc, pc, fed, seen>>

OnToolUse(ev) ==
    /\ ev.event = "response.tool_use"
    /\ UNCHANGED spinner
    /\ LET data == from_json("ToolUseEventData", ev.data) IN
         IF IsError(data)
         THEN Raise("DecodeError")
         ELSE /\ content_map' = Put(content_map, data.content_index,
                                    Element("expander", "Tool use", FALSE, data))
              /\ UNCHANGED <<messages, buffers, st_error, exc, pc, fed, seen>>

OnToolResult(ev) ==
    /\ ev.event = "response.tool_result"
    /\ UNCHANGED spinner
    /\ LET data == from_json("ToolResultEventData", ev.data) IN
         IF IsError(data)
         THEN Raise("DecodeError")
         ELSE /\ content_map' = Put(content_map, data.content_index,
                                    Element("expander", "Tool result", FALSE, data))
              /\ UNCHANGED <<messages, buffers, st_error, exc, pc, fed, seen>>

OnChart(ev) ==
    /\ ev.event = "response.chart"
    /\ UNCHANGED spinner
    /\ LET data == from_json("ChartEventData", ev.data) IN
         IF IsError(data)
         THEN Raise("DecodeError")
         ELSE LET spec == json_loads(data.chart_spec) IN
              IF IsError(spec)
              THEN Raise("JSONDecodeError")
              ELSE /\ content_map' = Put(content_map, data.content_index,
                                         Element("vega_lite_chart", "", FALSE, spec))
                   /\ UNCHANGED <<messages, buffers, st_error, exc, pc, fed, seen>>

OnTable(ev) ==
    /\ ev.event = "response.table"
    /\ UNCHANGED spinner
    /\ LET data == from_json("TableEventData", ev.data) IN
         IF IsError(data)
         THEN Raise("DecodeError")
         ELSE LET frame == [columns |-> data.result_set.row_type,
                            data |-> data.result_set.data]
              IN /\ content_map' = Put(content_map, data.content_index,
                                       Element("dataframe", "", FALSE, frame))
                 /\ UNCHANGED <<messages, buffers, st_error, exc, pc, fed, seen>>

\* Mutant of OnError: the rollback is forgotten.
OnError_NoPop(ev) ==
    /\ ev.event = "error"
    /\ UNCHANGED spinner
    /\ LET data == from_json("ErrorEventData", ev.data) IN
         IF IsError(data)
         THEN Raise("DecodeError")
         ELSE /\ st_error' = <<data.message, data.code>>
              /\ buffers' = Empty
              /\ pc' = "idle"
              /\ seen' = seen \cup {"error"}
              /\ UNCHANGED <<messages, content_map, exc, fed>>

\* Mutant of OnError: the return is forgotten, the loop goes on.
OnError_NoReturn(ev) ==
    /\ ev.event = "error"
    /\ UNCHANGED spinner
    /\ LET data == from_json("ErrorEventData", ev.data) IN
         IF IsError(data)
         THEN Raise("DecodeError")
         ELSE /\ st_error' = <<data.message, data.code>>
              /\ messages' = Front(messages)
              /\ seen' = seen \cup {"error"}
              /\ UNCHANGED <<buffers, content_map, exc, pc, fed>>

\* Mutant of OnError: the rollback is done before the payload is decoded.
OnError_PopFirst(ev) ==
    /\ ev.event = "error"
    /\ UNCHANGED spinner
    /\ messages' = Front(messages)
    /\ LET data == from_json("ErrorEventData", ev.data) IN
         IF IsError(data)
         THEN /\ pc' = "raised"
              /\ exc' = "DecodeError"
              /\ UNCHANGED <<buffers, content_map, st_error, fed, seen>>
         ELSE /\ st_error' = <<data.message, data.code>>
              /\ buffers' = Empty
              /\ pc' = "idle"
              /\ seen' = seen \cup {"error"}
              /\ UNCHANGED <<content_map, exc, fed>>

\* Mutant of OnError: the rollback also drops the Message before the last one.
OnError_PopTwice(ev) ==
    /\ ev.event = "error"
    /\ UNCHANGED spinner
    /\ LET data == from_json("ErrorEventData", ev.data) IN
         IF IsError(data)
         THEN Raise("DecodeError")
         ELSE /\ st_error' = <<data.message, data.code>>
              /\ messages' = Front(Front(messages))
              /\ buffers' = Empty
              /\ pc' = "idle"
              /\ seen' = seen \cup {"error"}
              /\ UNCHANGED <<content_map, exc, fed>>

\* case "error": st.error, pop the last message, return (the spinner is not exited;
\* the frame of stream_events, and with it buffers, is gone; the script run ends).
OnError(ev) ==
    /\ ev.event = "error"
    /\ UNCHANGED spinner
    /\ LET data == from_json("ErrorEventData", ev.data) IN
         IF IsError(data)
         THEN Raise("DecodeError")
         ELSE /\ st_error' = <<data.message, data.code>>
              /\ messages' = Front(messages)
              /\ buffers' = Empty
              /\ pc' = "idle"
              /\ seen' = seen \cup {"error"}
              /\ UNCHANGED <<content_map, exc, fed>>

\* Mutant of OnResponse: the Message is built from the buffered text of the slots
\* instead of the event's content list.
OnResponse_FromBuffers(ev) ==
    /\ ev.event = "response"
    /\ UNCHANGED spinner
    /\ LET data == from_json("Message", ev.data)
           item(i) == IF i \in DOMAIN buffers
                      THEN <<[type |-> "text", text |-> buffers[i]]>>
                      ELSE <<>>
       IN IF IsError(data)
          THEN Raise("DecodeError")
          ELSE /\ messages' = Append(messages, [role |-> data.role, content |-> item(0) \o item(1)])
               /\ seen' = seen \cup {"response"}
               /\ UNCHANGED <<buffers, content_map, st_error, exc, pc, fed>>

OnResponse(ev) ==
    /\ ev.event = "response"
    /\ UNCHANGED spinner
    /\ LET data == from_json("Message", ev.data) IN
         IF IsError(data)
         THEN Raise("DecodeError")
         ELSE /\ messages' = Append(messages, data)
              /\ seen' = seen \cup {"response"}
              /\ UNCHANGED <<buffers, content_map, st_error, exc, pc, fed>>

\* The match has no default case: an event of any other kind is read and dropped.
OnOther(ev) ==
    /\ ev.event \notin EventKinds
    /\ UNCHANGED <<messages, buffers, content_map, spinner, st_error, exc, pc, fed, seen>>

\* One iteration of "for event in events".
StreamEvent ==
    /\ pc = "streaming"
    /\ pending > 0
    /\ \E ev \in RawEvents :
         /\ pending' = pending - 1
         /\ last' = ev
         /\ nread' = nread + 1
         /\ total' = total + 1
         /\ \/ OnStatus(ev)
            \/ OnTextDelta(ev)
            \/ OnThinkingDelta(ev)
            \/ OnThinking(ev)
            \/ OnToolUse(ev)
            \/ OnToolResult(ev)
            \/ OnChart(ev)
            \/ OnTable(ev)
            \/ OnError(ev)
            \/ OnResponse(ev)
            \/ OnOther(ev)
    /\ UNCHANGED <<qlik_filters, status_code, turns, pre_turn, input>>

\* The stream is exhausted: the loop ends, the spinner is exited, stream_events and
\* process_new_message return and the script run ends.
StreamEnd ==
    /\ pc = "streaming"
    /\ pending = 0
    /\ spinner' = ""
    /\ buffers' = Empty
    /\ pc' = "idle"
    /\ UNCHANGED <<messages, qlik_filters, content_map, st_error, exc, status_code,
                   pending, turns, pre_turn, fed, last, nread, total, input, seen>>

\* No frame of the script handles an exception: it unwinds stream_events and
\* process_new_message, ends the script run, and Streamlit shows it (exc stays set).
Propagate ==
    /\ pc = "raised"
    /\ pc' = "idle"
    /\ buffers' = Empty
    /\ UNCHANGED <<messages, qlik_filters, content_map, spinner, st_error, exc, status_code,
                   pending, turns, pre_turn, fed, last, nread, total, input, seen>>

(***************************************************************************)
(* process_new_message: the filter fetch, the normalisation, the prompt.   *)
(* A JSON value is a tagged record; a JSON string that the code may split  *)
(* is a sequence of characters.                                            *)
(***************************************************************************)
Null == [t |-> "null"]
JStr(cs) == [t |-> "str", s |-> cs]
JNum(n) == [t |-> "num", n |-> n]
JList(v) == [t |-> "list", v |-> v]
JDict(d) == [t |-> "dict", d |-> d]

\* What requests.post(...).json() gives: an exception, or the decoded body.
FetchException == [t |-> "exception"]
FetchNull == JDict([filters |-> Null])
FetchMixed ==
    JDict([filters |-> JList(<<JStr(<<"x">>),
                               JDict([field |-> "region",
                                      values |-> JList(<<JStr(<<"U", "S">>), JStr(<<"E", "U">>)>>)]),
                               JDict([field |-> "empty", selectedValues |-> JStr(<<",", " ">>)])>>)])
FetchNoKey == JDict([other |-> Null])
FetchNotDict == JList(<<>>)
FetchStrFilters == JDict([filters |-> JStr(<<"a", "b">>)])
FetchNumFilters == JDict([filters |-> JNum(5)])
FetchSingle ==
    JDict([filters |-> JList(<<JDict([field |-> "year", values |-> JList(<<JStr(<<"2", "4">>)>>)])>>)])
FetchTwo ==
    JDict([filters |-> JList(<<JDict([field |-> "region",
                                      values |-> JList(<<JStr(<<"U", "S">>), JStr(<<"E", "U">>)>>)]),
                               JDict([field |-> "year",
                                      values |-> JList(<<>>),
                                      selectedValues |-> JStr(<<"2", "4", ",", " ", ",", " ", "2", "5", " ">>)])>>)])
FetchScalar ==
    JDict([filters |-> JList(<<JDict([values |-> JNum(7)]),
                               JDict([field |-> "n", values |-> JNum(0)]),
                               JDict([field |-> "missing"])>>)])

RawFetches == {FetchException, FetchNull, FetchMixed}

\* The inputs of the specification of the prompt augmenter.
FilterFetches ==
    RawFetches \cup {FetchNoKey, FetchNotDict, FetchStrFilters, FetchNumFilters,
                     FetchSingle, FetchTwo, FetchScalar}
FilterPrompts == {"show revenue", "top 5"}

\* d.get(k, default)
DictGet(d, k, default) == IF k \in DOMAIN d THEN d[k] ELSE default

\* Python's truth value of a JSON value
Truthy(v) ==
    CASE v.t = "null" -> FALSE
      [] v.t = "str" -> v.s # <<>>
      [] v.t = "num" -> v.n # 0
      [] v.t = "list" -> v.v # <<>>
      [] v.t = "dict" -> DOMAIN v.d # {}

\* s.split(","): the pieces between the commas
RECURSIVE Split(_, _)
Split(cs, piece) ==
    IF cs = <<>> THEN <<piece>>
    ELSE IF Head(cs) = "," THEN <<piece>> \o Split(Tail(cs), <<>>)
    ELSE Split(Tail(cs), Append(piece, Head(cs)))

\* s.strip()
RECURSIVE Strip(_)
Strip(cs) ==
    IF cs = <<>> THEN cs
    ELSE IF Head(cs) = " " THEN Strip(Tail(cs))
    ELSE IF Last(cs) = " " THEN Strip(Front(cs))
    ELSE cs

\* [v.strip() for v in values.split(",") if v.strip()]
RECURSIVE StripAll(_)
StripAll(pieces) ==
    IF pieces = <<>> THEN <<>>
    ELSE LET v == Strip(Head(pieces)) IN
         (IF v # <<>> THEN <<JStr(v)>> ELSE <<>>) \o StripAll(Tail(pieces))

\* lines 136-141: raw_filters, [] when the fetch or the body's get raises
RawFilters(fetch) ==
    IF fetch.t # "dict" THEN JList(<<>>)
    ELSE DictGet(fetch.d, "filters", JList(<<>>))

\* "for f in raw_filters" raises TypeError on None and on a number
Iterable(v) == v.t \in {"list", "str", "dict"}

\* lines 146-157 for one entry f: the normalised filter, or <<>> when f is dropped
NormalizeOne(f) ==
    IF f.t # "dict" THEN <<>>
    ELSE LET field == DictGet(f.d, "field", "unknown")
             a == DictGet(f.d, "values", Null)
             b == DictGet(f.d, "selectedValues", Null)
             raw == IF Truthy(a) THEN a ELSE IF Truthy(b) THEN b ELSE JList(<<>>)
             values == CASE raw.t = "str" -> StripAll(Split(raw.s, <<>>))
                         [] raw.t = "list" -> raw.v
                                                  [] OTHER -> <<raw>>
         IN IF values # <<>> THEN <<[field |-> field, values |-> values]>> ELSE <<>>

RECURSIVE NormalizeAll(_)
NormalizeAll(fs) ==
    IF fs = <<>> THEN <<>> ELSE NormalizeOne(Head(fs)) \o NormalizeAll(Tail(fs))

\* lines 144-157: iterating a str or a dict yields strs, which are all skipped
Normalize(raw_filters) ==
    IF raw_filters.t = "list" THEN NormalizeAll(raw_filters.v) ELSE <<>>

\* str(v) of a value of a filter: a string as it is, a number in decimal
Str(v) == IF v.t = "str" THEN Concat(v.s) ELSE ToString(v.n)

\* f"'{v}'"
Quote(v) == "'" \o Str(v) \o "'"

RECURSIVE QuoteAll(_)
QuoteAll(vs) == IF vs = <<>> THEN <<>> ELSE <<Quote(Head(vs))>> \o QuoteAll(Tail(vs))

\* Mutant of Clause: a filter with one value is rendered as an equality.
Clause_ByArity(f) ==
    IF Len(f.values) = 1
    THEN f.field \o " = " \o Quote(f.values[1])
    ELSE f.field \o " IN (" \o Join(QuoteAll(f.values), ", ") \o ")"

\* lines 166-167
Clause(f) == f.field \o " IN (" \o Join(QuoteAll(f.values), ", ") \o ")"

RECURSIVE Clauses(_)
Clauses(fs) == IF fs = <<>> THEN <<>> ELSE <<Clause(Head(fs))>> \o Clauses(Tail(fs))

\* Mutant of FullPrompt: the clauses are joined by a comma.
FullPrompt_Comma(user_prompt, normalized_filters) ==
    IF normalized_filters # <<>>
    THEN user_prompt \o " " \o Join(Clauses(normalized_filters), ", ")
    ELSE user_prompt

\* lines 162-169
FullPrompt(user_prompt, normalized_filters) ==
    IF normalized_filters # <<>>
    THEN user_prompt \o " " \o Join(Clauses(normalized_filters), " AND ")
    ELSE user_prompt

\* lines 172-175
UserMessage(full_prompt) ==
    [role |-> "user", content |-> <<[type |-> "text", text |-> full_prompt]>>]

\* Mutant of agent_run: the comparison is off by one.
agent_run_Le(status) == IF status <= 400 THEN "response" ELSE "raise"

\* lines 64-67: the response is returned, or an Exception is raised
agent_run(status) == IF status < 400 THEN "response" ELSE "raise"

\* A script run with a chat input: the page is drawn anew, then process_new_message
\* runs up to the request of agent_run.
SubmitOf(prompts, fetches) ==
    /\ pc = "idle"
    /\ turns < MaxTurns
    /\ \E user_input \in prompts, fetch \in fetches :
         /\ input' = [user_input |-> user_input, fetch |-> fetch]
         /\ LET raw_filters == RawFilters(fetch)
                normalized_filters == Normalize(raw_filters)
            IN IF ~Iterable(raw_filters)
               THEN /\ pc' = "raised"
                    /\ exc' = "TypeError"
                    /\ spinner' = ""
                    /\ UNCHANGED <<messages, qlik_filters>>
               ELSE /\ qlik_filters' = normalized_filters
                    /\ messages' =
                         Append(messages, UserMessage(FullPrompt(user_input, normalized_filters)))
                    /\ pc' = "agent_run"
                    /\ exc' = ""
                    /\ spinner' = "Sending request..."
    /\ turns' = turns + 1
    /\ buffers' = Empty
    /\ content_map' = Empty
    /\ st_error' = <<>>
    /\ status_code' = 0
    /\ pending' = 0
    /\ pre_turn' = messages
    /\ fed' = [i \in {} |-> <<>>]
    /\ last' = NoEvent
    /\ nread' = 0
    /\ seen' = {}
    /\ UNCHANGED total

Submit == SubmitOf(Prompts, RawFetches)

\* The same script run, with the inputs of the prompt augmenter's specification.
SubmitFilters == SubmitOf(FilterPrompts, FilterFetches)

\* lines 180-186: agent_run returns the response and stream_events is entered (new
\* content_map and buffers, the spinner), or it raises.
AgentRun ==
    /\ pc = "agent_run"
    /\ \E status \in StatusCodes :
         /\ status_code' = status
         /\ IF agent_run(status) = "response"
            THEN /\ pc' = "streaming"
                 /\ spinner' = "Waiting for response..."
                 /\ \E n \in 0..(MaxEvents - total) : pending' = n
                 /\ exc' = exc
            ELSE /\ pc' = "raised"
                 /\ spinner' = ""
                 /\ exc' = "Exception"
                 /\ pending' = pending
    /\ buffers' = Empty
    /\ content_map' = Empty
    /\ UNCHANGED <<messages, qlik_filters, st_error, turns, pre_turn, fed, last, nread, total,
                   input, seen>>

Init ==
    /\ messages = <<>>
    /\ qlik_filters = <<>>
    /\ pc = "idle"
    /\ buffers = Empty
    /\ content_map = Empty
    /\ spinner = ""
    /\ st_error = <<>>
    /\ exc = ""
    /\ status_code = 0
    /\ pending = 0
    /\ turns = 0
    /\ pre_turn = <<>>
    /\ fed = [i \in {} |-> <<>>]
    /\ last = NoEvent
    /\ nread = 0
    /\ total = 0
    /\ input = NoInput
    /\ seen = {}

Next == Submit \/ AgentRun \/ StreamEvent \/ StreamEnd \/ Propagate

Spec == Init /\ [][Next]_vars

\* The specification of the prompt augmenter: every shape of the filter source's
\* answer, in sessions whose streams carry one event in all.
InitFilters ==
    /\ messages = <<>>
    /\ qlik_filters = <<>>
    /\ pc = "idle"
    /\ buffers = Empty
    /\ content_map = Empty
    /\ spinner = ""
    /\ st_error = <<>>
    /\ exc = ""
    /\ status_code = 0
    /\ pending = 0
    /\ turns = 0
    /\ pre_turn = <<>>
    /\ fed = [i \in {} |-> <<>>]
    /\ last = NoEvent
    /\ nread = 0
    /\ total = MaxEvents - 1
    /\ input = NoInput
    /\ seen = {}

NextFilters == SubmitFilters \/ AgentRun \/ StreamEvent \/ StreamEnd \/ Propagate

SpecFilters == InitFilters /\ [][NextFilters]_vars

(***************************************************************************)
(* The claims.                                                             *)
(***************************************************************************)
\* The class each case of the match decodes its event with.
ClassOf(kind) ==
    CASE kind = "response.status" -> "StatusEventData"
      [] kind = "response.text.delta" -> "TextDeltaEventData"
      [] kind = "response.thinking.delta" -> "ThinkingDeltaEventData"
      [] kind = "response.thinking" -> "ThinkingDeltaEventData"
      [] kind = "response.tool_use" -> "ToolUseEventData"
      [] kind = "response.tool_result" -> "ToolResultEventData"
      [] kind = "response.chart" -> "ChartEventData"
      [] kind = "response.table" -> "TableEventData"
      [] kind = "error" -> "ErrorEventData"
      [] kind = "response" -> "Message"

\* ev is an event of a known kind whose payload decodes
Decodes(ev) ==
    /\ ev.event \in EventKinds
    /\ ~IsError(from_json(ClassOf(ev.event), ev.data))
    /\ ev.event = "response.chart" => ~IsError(json_loads(ev.data.chart_spec))

\* ev is an event of a known kind whose payload does not decode
Malformed(ev) == ev.event \in EventKinds /\ ~Decodes(ev)

\* this step is an iteration of the loop of stream_events
ReadStep == nread' = nread + 1

\* C1: while stream_events runs, the buffer of every slot is the concatenation, in
\* arrival order and with no separator, of the texts of the text.delta and
\* thinking.delta events applied to that slot in this stream, whatever was applied
\* to other slots in between; a slot has a buffer exactly when it received a delta.
C1_DeltaConcat ==
    pc \in {"streaming", "raised"} =>
        /\ DOMAIN buffers = DOMAIN fed
        /\ \A i \in DOMAIN fed : buffers[i] = Concat(fed[i])

C1_Witness ==
    /\ pc = "streaming"
    /\ \E i \in DOMAIN fed, j \in DOMAIN fed :
         /\ i # j
         /\ Len(fed[i]) = 2
         /\ fed[i][1] # fed[i][2]
         /\ last.event = "response.text.delta"
         /\ last.data.content_index = i

\* C2: after a well-formed non-delta thinking event for slot i with text p, slot i
\* shows p and the buffer table holds p for i.
C2_ThinkingOverwrites ==
    (pc = "streaming" /\ last.event = "response.thinking" /\ Decodes(last)) =>
        LET i == last.data.content_index
            p == last.data.text
        IN /\ content_map[i].body = p
           /\ i \in DOMAIN buffers
           /\ buffers[i] = p

\* C3: after a well-formed response event the last Message of the transcript is the
\* event's payload, role and content verbatim, whatever the buffers hold.
C3_ResponseIsLast ==
    (last.event = "response" /\ Decodes(last)) =>
        /\ messages # <<>>
        /\ Last(messages) = from_json("Message", last.data)

C3_Witness ==
    /\ pc = "streaming"
    /\ last.event = "response"
    /\ Decodes(last)
    /\ DOMAIN buffers = {1}
    /\ DOMAIN content_map = {1}
    /\ Len(last.data.content) = 2

\* C4: a turn in which an error event was applied leaves the transcript as it was
\* before the turn, and the error sink holds the event's message and code.
C4_ErrorRestoresTranscript ==
    "error" \in seen => (messages = pre_turn /\ st_error = <<"timeout", 504>>)

\* C5 as stated: after an error event the transcript holds one Message fewer than
\* before the turn began.
C5_OneFewerThanPreTurn ==
    "error" \in seen => Len(messages) = Len(pre_turn) - 1

\* C5 amended: the step that applies an error event removes exactly the last Message
\* of the transcript as it was immediately before the event; when no response was
\* applied earlier in the stream the result is the transcript of before the turn.
C5_OneFewerThanBeforeError ==
    [][(ReadStep /\ last'.event = "error" /\ Decodes(last')) =>
          /\ messages # <<>>
          /\ messages' = Front(messages)
          /\ "response" \notin seen => messages' = pre_turn]_vars

C5_Witness ==
    /\ "error" \in seen
    /\ pre_turn # <<>>
    /\ Len(messages) = Len(pre_turn) + 1

\* C6: once an error event was applied, nothing of the same turn reads another event
\* or changes the buffers, the transcript or the slots, although the server has
\* more events to send.
C6_NothingAfterError ==
    [][("error" \in seen /\ turns' = turns) =>
          UNCHANGED <<buffers, messages, content_map, nread, pending, st_error>>]_vars

C6_Witness == "error" \in seen /\ pending > 0 /\ pc = "idle" /\ content_map # Empty

\* C7: after an event whose payload does not decode, stream_events is still in its
\* loop and goes on to the events that follow.
C7_DecodeFailureNotFatal ==
    (Malformed(last) /\ nread > 0) => (pc = "streaming" /\ exc = "")

\* C8: the step in which the decoding of an event fails leaves the buffers of every
\* slot and the transcript as they were before the event was read.
C8_DecodeFailureKeepsState ==
    [][(ReadStep /\ Malformed(last')) => UNCHANGED <<buffers, messages>>]_vars

C8_Witness ==
    /\ pc = "raised"
    /\ Malformed(last)
    /\ last.event = "error"
    /\ buffers # Empty
    /\ "response" \in seen

\* C9: agent_run raises on a status of 400 or more, and then stream_events is never
\* entered in the turn (no event is read, no buffer or slot exists, the transcript
\* is the one process_new_message left) and the exception is what the run shows; on
\* a status below 400 stream_events is entered.
C9_TransportFailure ==
    /\ [](status_code >= 400 =>
            /\ pc \in {"raised", "idle"}
            /\ exc = "Exception"
            /\ nread = 0
            /\ buffers = Empty /\ content_map = Empty
            /\ Len(messages) = Len(pre_turn) + 1
            /\ Front(messages) = pre_turn)
    /\ [][pc = "agent_run" => (status_code' < 400 <=> pc' = "streaming")]_vars

C9_Witness == status_code = 400 /\ pc = "idle" /\ pre_turn # <<>>

\* C10: once a response or an error event was applied in a turn, no buffer entry of
\* any slot exists.
C10_NoBufferAfterTerminal ==
    seen # {} => buffers = Empty

\* The user Message of this turn, when the transcript still holds it.
HasUserMessage == turns > 0 /\ Len(messages) > Len(pre_turn)
UserText == messages[Len(pre_turn) + 1].content[1].text

\* What the filter source's answers of the model must add to the prompt, written
\* out: nothing when the snapshot is empty, else a space and the clauses.
ExpectedSuffix(fetch) ==
    CASE fetch = FetchMixed -> " region IN ('US', 'EU')"
      [] fetch = FetchSingle -> " year IN ('24')"
      [] fetch = FetchTwo -> " region IN ('US', 'EU') AND year IN ('24', '25')"
      [] fetch = FetchScalar -> " unknown IN ('7')"
      [] OTHER -> ""

\* C11: the text of the turn's user Message is the chat input when the snapshot is
\* empty, and else the chat input, a space, and the clauses "field IN ('v1', 'v2')"
\* in snapshot order joined by " AND "; the Message is a user Message with that one
\* text item.
C11_AugmentedPrompt ==
    HasUserMessage =>
        /\ messages[Len(pre_turn) + 1] =
             [role |-> "user",
              content |-> <<[type |-> "text",
                             text |-> input.user_input \o ExpectedSuffix(input.fetch)]>>]
        /\ qlik_filters = <<>> => UserText = input.user_input
        /\ (input.user_input = "show revenue" /\ input.fetch = FetchMixed) =>
             UserText = "show revenue region IN ('US', 'EU')"

C11_Witness ==
    /\ pc = "agent_run"
    /\ pre_turn # <<>>
    /\ input = [user_input |-> "top 5", fetch |-> FetchTwo]
    /\ Len(qlik_filters) = 2

\* C12 as stated: a filter with exactly one value is rendered as "field = value".
C12_SingleValueIsEquality ==
    (HasUserMessage /\ input.fetch = FetchSingle) =>
        UserText \in {input.user_input \o " year = 24", input.user_input \o " year = '24'"}

\* C12 amended: the clause form does not depend on the number of values; a filter
\* with one value is rendered as "field IN ('v')" like one with several.
C12_SingleValueIsIn ==
    /\ (HasUserMessage /\ input.fetch = FetchSingle) =>
          UserText = input.user_input \o " year IN ('24')"
    /\ (HasUserMessage /\ input.fetch = FetchScalar) =>
          UserText = input.user_input \o " unknown IN ('7')"
    /\ (HasUserMessage /\ input.fetch = FetchTwo) =>
          UserText = input.user_input \o " region IN ('US', 'EU') AND year IN ('24', '25')"

C12_Witness ==
    /\ pc = "agent_run"
    /\ input.fetch = FetchSingle
    /\ Len(qlik_filters) = 1
    /\ Len(qlik_filters[1].values) = 1

\* C13: whatever the filter source answers, process_new_message does not raise
\* because of it: the run appends the user Message and dispatches the agent call.
C13_FilterFailureNotPropagated ==
    (turns > 0 /\ status_code = 0) =>
        /\ pc = "agent_run"
        /\ exc = ""
        /\ Len(messages) = Len(pre_turn) + 1
        /\ Last(messages).role = "user"

\* C14: a slot that has just received a non-delta event (thinking, tool_use,
\* tool_result, chart, table) has no buffer entry.
C14_NoBufferAfterFinalizing ==
    (pc = "streaming" /\ Decodes(last)
       /\ last.event \in {"response.thinking", "response.tool_use", "response.tool_result",
                          "response.chart", "response.table"}) =>
        last.data.content_index \notin DOMAIN buffers

\* C15: after a response event no later event of the stream changes the
\* transcript, and a turn that received a response holds the transcript of before
\* the turn, the user Message and that one assistant Message.
C15_ResponseIsTerminal ==
    "response" \in seen =>
        /\ Len(messages) = Len(pre_turn) + 2
        /\ Front(Front(messages)) = pre_turn
        /\ Last(messages).role = "assistant"

\* C16: the transcript of before the turn is a prefix of the transcript throughout
\* the turn and after it, and the rollback of an error event only ever removes a
\* Message appended in the same turn (so it never runs on an empty transcript).
C16_PreTurnIsPrefix ==
    /\ [](/\ Len(messages) >= Len(pre_turn)
          /\ SubSeq(messages, 1, Len(pre_turn)) = pre_turn)
    /\ [][(ReadStep /\ last'.event = "error" /\ Decodes(last')) =>
             Len(messages) > Len(pre_turn)]_vars

C16_Witness ==
    /\ "error" \in seen
    /\ pre_turn # <<>>
    /\ messages = pre_turn
    /\ turns = 2

\* C17: a turn that has ended is Completed, with the user Message and an assistant
\* Message after it, or Failed, with the transcript of before the turn; the
\* transcript never ends with a user Message that has no reply.
C17_TurnEndsCompletedOrFailed ==
    (pc = "idle" /\ turns > 0) =>
        \/ messages = pre_turn
        \/ /\ Len(messages) = Len(pre_turn) + 2
           /\ messages[Len(pre_turn) + 1].role = "user"
           /\ Last(messages).role = "assistant"

\* C18: the step that applies a text.delta or thinking.delta for slot i shows in
\* slot i the whole text accumulated for i in the stream, this fragment included,
\* and leaves every other slot as it was.
C18_DeltaEmitsWholeBuffer ==
    [][(ReadStep /\ Decodes(last')
          /\ last'.event \in {"response.text.delta", "response.thinking.delta"}) =>
         LET i == last'.data.content_index IN
           /\ DOMAIN content_map' = DOMAIN content_map \cup {i}
           /\ content_map'[i].el \in {"write", "expander"}
           /\ content_map'[i].body = Concat(fed'[i])
           /\ \A j \in DOMAIN content_map \ {i} : content_map'[j] = content_map[j]]_vars

C18_Witness ==
    /\ pc = "streaming"
    /\ last.event = "response.text.delta"
    /\ Len(fed[last.data.content_index]) = 2
    /\ content_map[last.data.content_index].body \in {"ab", "ba"}
    /\ DOMAIN content_map = {0, 1}

\* C19: the step that applies a status event changes no buffer, no slot and not the
\* transcript, and the label shown after it is the event's message alone.
C19_StatusOnlySetsLabel ==
    [][(ReadStep /\ last'.event = "response.status" /\ Decodes(last')) =>
         /\ UNCHANGED <<buffers, content_map, messages>>
         /\ spinner' = last'.data.message
         /\ spinner' \in Statuses]_vars

C19_Witness ==
    /\ pc = "streaming"
    /\ nread = 2
    /\ last.event = "response.status"
    /\ Decodes(last)
    /\ spinner = "Executing"
    /\ DOMAIN buffers = {0}
    /\ buffers[0] = "a"
    /\ DOMAIN content_map = {0}
    /\ content_map[0].body = "a"

\* The snapshot the filter source's answers of the model must leave, written out.
ExpectedSnapshot(fetch) ==
    CASE fetch = FetchMixed ->
           <<[field |-> "region", values |-> <<JStr(<<"U", "S">>), JStr(<<"E", "U">>)>>]>>
      [] fetch = FetchSingle ->
           <<[field |-> "year", values |-> <<JStr(<<"2", "4">>)>>]>>
      [] fetch = FetchTwo ->
           <<[field |-> "region", values |-> <<JStr(<<"U", "S">>), JStr(<<"E", "U">>)>>],
             [field |-> "year", values |-> <<JStr(<<"2", "4">>), JStr(<<"2", "5">>)>>]>>
      [] fetch = FetchScalar ->
           <<[field |-> "unknown", values |-> <<JNum(7)>>]>>
      [] OTHER -> <<>>

\* C20: after the fetch of a turn the stored snapshot is the normalisation of that
\* fetch's answer, with nothing of an earlier snapshot in it, and every filter of
\* it has at least one value.
C20_SnapshotIsThisFetch ==
    turns > 0 =>
        /\ qlik_filters = ExpectedSnapshot(input.fetch)
        /\ \A k \in 1..Len(qlik_filters) : qlik_filters[k].values # <<>>

====
